---- MODULE Spec2Model ----
(***************************************************************************)
(* Model of other_expense_tracker.py: the three LangGraph nodes (extract,  *)
(* calculate, output), the linear graph that threads one ExpenseState      *)
(* through them, and main, which fetches the raw data, invokes the graph   *)
(* and prints / persists the result.                                       *)
(*                                                                         *)
(* Python values are tagged records [type |-> ..., val |-> ...]; a Python  *)
(* str is a tuple of one-character strings so that lower() and the `in`    *)
(* substring test are computed, not assumed.  Amounts are whole numbers    *)
(* (which binary floats represent exactly), so float addition is integer   *)
(* addition.                                                               *)
(***************************************************************************)
EXTENDS Integers, Sequences, FiniteSets, TLC

VARIABLES pc, state, exc, stdout, result_file, llm_status

vars == <<pc, state, exc, stdout, result_file, llm_status>>

(***************************************************************************)
(* Bounds.                                                                 *)
(***************************************************************************)
\* longest "expenses" list the data provider returns in the model
MaxLen == 2

(***************************************************************************)
(* Python values.                                                          *)
(***************************************************************************)
None == "None"

PyNull == [type |-> "null"]

PyStr(s) == [type |-> "str", val |-> s]

PyInt(n) == [type |-> "int", val |-> n]

PyList(s) == [type |-> "list", val |-> s]

PyDict(d) == [type |-> "dict", val |-> d]

EmptyDict == <<>>

\* dict.get(key, default)
DictGet(d, key, default) == IF key \in DOMAIN d THEN d[key] ELSE default

UpperChars == <<"A","B","C","D","E","F","G","H","I","J","K","L","M",
                "N","O","P","Q","R","S","T","U","V","W","X","Y","Z">>

LowerChars == <<"a","b","c","d","e","f","g","h","i","j","k","l","m",
                "n","o","p","q","r","s","t","u","v","w","x","y","z">>

\* str.lower(), character by character
LowerChar(c) ==
    IF \E i \in DOMAIN UpperChars : UpperChars[i] = c
    THEN LowerChars[CHOOSE i \in DOMAIN UpperChars : UpperChars[i] = c]
    ELSE c

StrLower(s) == [i \in DOMAIN s |-> LowerChar(s[i])]

\* the `in` operator on two str: kw occurs as a contiguous substring of s
StrContains(s, kw) ==
    \E i \in 1..(Len(s) - Len(kw) + 1) : SubSeq(s, i, i + Len(kw) - 1) = kw

Digits == <<"0","1","2","3","4","5","6","7","8","9">>

DigitChar(d) == Digits[d + 1]

IsDigit(c) == \E i \in DOMAIN Digits : Digits[i] = c

DigitVal(c) == (CHOOSE i \in DOMAIN Digits : Digits[i] = c) - 1

RECURSIVE NatToStr(_)
NatToStr(n) ==
    IF n < 10 THEN <<DigitChar(n)>>
    ELSE NatToStr(n \div 10) \o <<DigitChar(n % 10)>>

\* str(int)
IntToStr(n) == IF n < 0 THEN <<"-">> \o NatToStr(0 - n) ELSE NatToStr(n)

\* str(x) for the values a category can hold in the model (str, int, None)
PyStrOf(v) ==
    CASE v.type = "str"  -> v.val
      [] v.type = "int"  -> IntToStr(v.val)
      [] v.type = "null" -> <<"N","o","n","e">>

RECURSIVE DigitsToNat(_)
DigitsToNat(s) ==
    IF s = <<>> THEN 0
    ELSE 10 * DigitsToNat(SubSeq(s, 1, Len(s) - 1)) + DigitVal(s[Len(s)])

\* float(x): numbers pass through, a str is parsed as an optionally signed
\* decimal integer literal, anything else raises.  Result is [ok, val] or
\* [ok, exc].  (Literals with a fraction, an exponent, "inf" or "nan" are
\* outside the inputs of the model.)
PyFloat(v) ==
    CASE v.type = "int" -> [ok |-> TRUE, val |-> v.val]
      [] v.type = "str" ->
            LET s    == v.val
                neg  == s # <<>> /\ s[1] = "-"
                body == IF neg THEN Tail(s) ELSE s
            IN  IF body # <<>> /\ \A i \in DOMAIN body : IsDigit(body[i])
                THEN [ok |-> TRUE,
                      val |-> IF neg THEN 0 - DigitsToNat(body) ELSE DigitsToNat(body)]
                ELSE [ok |-> FALSE, exc |-> "ValueError"]
      [] OTHER -> [ok |-> FALSE, exc |-> "TypeError"]

\* f"{x:.2f}" for a whole number
Fmt2f(n) == IntToStr(n) \o <<".","0","0">>

(***************************************************************************)
(* String literals of the program.                                         *)
(***************************************************************************)
KW_auditor == <<"a","u","d","i","t","o","r">>

KW_legal == <<"l","e","g","a","l">>

KW_professional == <<"p","r","o","f","e","s","s","i","o","n","a","l">>

KW_travel == <<"t","r","a","v","e","l">>

KW_administrative == <<"a","d","m","i","n","i","s","t","r","a","t","i","v","e">>

key_categories == <<KW_auditor, KW_legal, KW_professional, KW_travel, KW_administrative>>

AuditorKeywords == <<KW_auditor>>

LegalProfKeywords == <<KW_legal, KW_professional>>

TravelAdminKeywords == <<KW_travel, KW_administrative>>

\* variant: the category is not lower-cased before the keyword test
MatchesAny_CaseSensitive(exp, kws) ==
    LET cat == PyStrOf(DictGet(exp.val, "category", PyStr(<<>>)))
    IN  \E k \in DOMAIN kws : StrContains(cat, kws[k])

\* any(keyword in str(exp.get("category", "")).lower() for keyword in kws)
MatchesAny(exp, kws) ==
    LET cat == StrLower(PyStrOf(DictGet(exp.val, "category", PyStr(<<>>))))
    IN  \E k \in DOMAIN kws : StrContains(cat, kws[k])

(***************************************************************************)
(* Inputs: what the data provider can return.                              *)
(***************************************************************************)
CAT_AUDITOR == <<"A","U","D","I","T","O","R">>

CAT_LegalTravel == <<"L","e","g","a","l"," ","T","r","a","v","e","l">>

CAT_AuditorLegalTravel ==
    <<"A","u","d","i","t","o","r"," ","L","e","g","a","l"," ","T","r","a","v","e","l">>

CAT_Rent == <<"R","e","n","t">>

CAT_AuditorFees == <<"A","u","d","i","t","o","r"," ","F","e","e","s">>

CAT_LegalFees == <<"L","e","g","a","l"," ","F","e","e","s">>

CAT_TravelExpenses == <<"T","r","a","v","e","l"," ","E","x","p","e","n","s","e","s">>

CAT_ProfessionalServices ==
    <<"P","r","o","f","e","s","s","i","o","n","a","l"," ","S","e","r","v","i","c","e","s">>

CAT_Administrative == <<"A","d","m","i","n","i","s","t","r","a","t","i","v","e">>

\* category labels of the records the API returns in the model
ApiCategories ==
    {PyStr(CAT_AUDITOR), PyStr(CAT_LegalTravel), PyStr(CAT_AuditorLegalTravel),
     PyStr(CAT_Rent)}

\* amounts of the records the API returns in the model: numbers, a negative
\* number, a numeric string and a non-numeric string
ApiAmounts ==
    {PyInt(5000), PyInt(-700), PyStr(<<"1","8","0","0">>), PyStr(<<"a","b","c">>)}

\* records with and without the category / amount keys, and one list item
\* that is not a dict at all
ApiItems ==
    {PyDict([category |-> c, amount |-> a]) : c \in ApiCategories, a \in ApiAmounts}
    \cup {PyDict([category |-> c]) : c \in ApiCategories}
    \cup {PyDict([amount |-> a]) : a \in ApiAmounts}
    \cup {PyDict(EmptyDict)}
    \cup {PyStr(<<"x">>)}

SeqsUpTo(S, n) == UNION {[1..k -> S] : k \in 0..n}

\* bodies response.json() can return
ApiBodies ==
    {PyDict([expenses |-> PyList(xs)]) : xs \in SeqsUpTo(ApiItems, MaxLen)}
    \cup {PyDict(EmptyDict), PyDict([expenses |-> PyNull]),
          PyDict([expenses |-> PyStr(<<>>)]), PyDict([expenses |-> PyDict(EmptyDict)]),
          PyList(<<>>)}

\* outcome of requests.get + raise_for_status + json
Responses == {[ok |-> TRUE, json |-> b] : b \in ApiBodies} \cup {[ok |-> FALSE]}

\* outcome of ChatOpenAI(...).invoke(...)
LLMOutcomes ==
    {[ok |-> TRUE, content |-> <<"LLM", "anomaly narrative">>], [ok |-> FALSE]}

(***************************************************************************)
(* fetch_ac_data                                                           *)
(***************************************************************************)
MockRecord(id, cat, amount) ==
    PyDict([id |-> PyInt(id), category |-> PyStr(cat), amount |-> PyInt(amount)])

MockData ==
    PyDict([expenses |-> PyList(<<
        MockRecord(1, CAT_AuditorFees, 5000),
        MockRecord(2, CAT_LegalFees, 3500),
        MockRecord(3, CAT_TravelExpenses, 2200),
        MockRecord(4, CAT_ProfessionalServices, 1800),
        MockRecord(5, CAT_Administrative, 900)>>)])

fetch_ac_data(resp) == IF resp.ok THEN resp.json ELSE MockData

(***************************************************************************)
(* extract_other_expenses_node                                             *)
(***************************************************************************)
RECURSIVE SetToSeq(_)
SetToSeq(S) ==
    IF S = {} THEN <<>>
    ELSE LET x == CHOOSE y \in S : TRUE IN <<x>> \o SetToSeq(S \ {x})

\* `for exp in all_expenses`: a list yields its elements, a str its
\* characters, a dict its keys (as str items); other values are not iterable
PyIter(v) ==
    CASE v.type = "list" -> [ok |-> TRUE, val |-> v.val]
      [] v.type = "str"  -> [ok |-> TRUE, val |-> [i \in DOMAIN v.val |-> PyStr(<<v.val[i]>>)]]
      [] v.type = "dict" ->
            LET keys == SetToSeq(DOMAIN v.val)
            IN  [ok |-> TRUE, val |-> [i \in DOMAIN keys |-> PyStr(<<keys[i]>>)]]
      [] OTHER -> [ok |-> FALSE, exc |-> "TypeError"]

\* the list comprehension of lines 82-85: exp.get on a non-dict raises
RECURSIVE FilterRelevant(_)
FilterRelevant(xs) ==
    IF Len(xs) = 0 THEN [ok |-> TRUE, val |-> <<>>]
    ELSE LET exp == Head(xs)
         IN  IF exp.type # "dict" THEN [ok |-> FALSE, exc |-> "AttributeError"]
             ELSE LET rest == FilterRelevant(Tail(xs))
                  IN  IF ~rest.ok THEN rest
                      ELSE [ok |-> TRUE,
                            val |-> IF MatchesAny(exp, key_categories)
                                    THEN <<exp>> \o rest.val
                                    ELSE rest.val]

\* the try body of extract_other_expenses_node: the filtered list or the
\* exception it raises
ExtractBody(s) ==
    IF s.raw_data.type # "dict" THEN [ok |-> FALSE, exc |-> "AttributeError"]
    ELSE LET all_expenses == PyIter(DictGet(s.raw_data.val, "expenses", PyList(<<>>)))
         IN  IF ~all_expenses.ok THEN all_expenses
             ELSE FilterRelevant(all_expenses.val)

ErrMsg(prefix, e) == prefix \o ": " \o e

extract_other_expenses_node(s) ==
    LET r == ExtractBody(s)
    IN  IF r.ok
        THEN [state |-> [s EXCEPT !.expense_items = r.val], exc |-> None]
        ELSE [state |-> [s EXCEPT !.error = ErrMsg("Extraction error", r.exc)],
              exc |-> None]

(***************************************************************************)
(* calculate_other_expenses_node                                           *)
(***************************************************************************)
\* variant: a record whose amount is missing or cannot be coerced is
\* skipped and the sum continues
RECURSIVE BucketSum_SkipBad(_, _)
BucketSum_SkipBad(items, kws) ==
    IF Len(items) = 0 THEN [ok |-> TRUE, val |-> 0]
    ELSE LET exp  == Head(items)
             rest == BucketSum_SkipBad(Tail(items), kws)
         IN  IF ~MatchesAny(exp, kws) \/ "amount" \notin DOMAIN exp.val
                \/ ~PyFloat(exp.val["amount"]).ok
             THEN rest
             ELSE [ok |-> TRUE, val |-> PyFloat(exp.val["amount"]).val + rest.val]

\* variant: each amount is subtracted from the running sum instead of added
RECURSIVE BucketSum_Subtracts(_, _)
BucketSum_Subtracts(items, kws) ==
    IF Len(items) = 0 THEN [ok |-> TRUE, val |-> 0]
    ELSE LET exp == Head(items)
         IN  IF ~MatchesAny(exp, kws) THEN BucketSum_Subtracts(Tail(items), kws)
             ELSE IF "amount" \notin DOMAIN exp.val
                  THEN [ok |-> FALSE, exc |-> "KeyError"]
                  ELSE LET f == PyFloat(exp.val["amount"])
                       IN  IF ~f.ok THEN f
                           ELSE LET rest == BucketSum_Subtracts(Tail(items), kws)
                                IN  IF ~rest.ok THEN rest
                                    ELSE [ok |-> TRUE, val |-> rest.val - f.val]

\* sum(float(exp["amount"]) for exp in items if any(kw in category ...)):
\* items are visited in order, the first failing coercion raises
RECURSIVE BucketSum(_, _)
BucketSum(items, kws) ==
    IF Len(items) = 0 THEN [ok |-> TRUE, val |-> 0]
    ELSE LET exp == Head(items)
         IN  IF ~MatchesAny(exp, kws) THEN BucketSum(Tail(items), kws)
             ELSE IF "amount" \notin DOMAIN exp.val
                  THEN [ok |-> FALSE, exc |-> "KeyError"]
                  ELSE LET f == PyFloat(exp.val["amount"])
                       IN  IF ~f.ok THEN f
                           ELSE LET rest == BucketSum(Tail(items), kws)
                                IN  IF ~rest.ok THEN rest
                                    ELSE [ok |-> TRUE, val |-> f.val + rest.val]

\* variant: the grand total is re-derived from the items, each counted once
ComputeTotals_RawTotal(items) ==
    LET auditor_total == BucketSum(items, AuditorKeywords)
        legal_prof_total == BucketSum(items, LegalProfKeywords)
        travel_admin_total == BucketSum(items, TravelAdminKeywords)
        raw_total == BucketSum(items, key_categories)
    IN  IF ~auditor_total.ok THEN auditor_total
        ELSE IF ~legal_prof_total.ok THEN legal_prof_total
        ELSE IF ~travel_admin_total.ok THEN travel_admin_total
        ELSE [ok |-> TRUE,
              auditor_total |-> auditor_total.val,
              legal_prof_total |-> legal_prof_total.val,
              travel_admin_total |-> travel_admin_total.val,
              total_other_expenses |-> raw_total.val]

\* variant: buckets are exclusive (if / elif): a record goes to the first
\* bucket it matches only
ComputeTotals_Exclusive(items) ==
    LET NotAuditor(e) == ~MatchesAny(e, AuditorKeywords)
        NotAuditorNorLegal(e) ==
            ~MatchesAny(e, AuditorKeywords) /\ ~MatchesAny(e, LegalProfKeywords)
        auditor_total == BucketSum(items, AuditorKeywords)
        legal_prof_total == BucketSum(SelectSeq(items, NotAuditor), LegalProfKeywords)
        travel_admin_total ==
            BucketSum(SelectSeq(items, NotAuditorNorLegal), TravelAdminKeywords)
    IN  IF ~auditor_total.ok THEN auditor_total
        ELSE IF ~legal_prof_total.ok THEN legal_prof_total
        ELSE IF ~travel_admin_total.ok THEN travel_admin_total
        ELSE [ok |-> TRUE,
              auditor_total |-> auditor_total.val,
              legal_prof_total |-> legal_prof_total.val,
              travel_admin_total |-> travel_admin_total.val,
              total_other_expenses |->
                  auditor_total.val + legal_prof_total.val + travel_admin_total.val]

\* lines 98-113: the three bucket sums, in order, and the grand total
ComputeTotals(items) ==
    LET auditor_total == BucketSum(items, AuditorKeywords)
        legal_prof_total == BucketSum(items, LegalProfKeywords)
        travel_admin_total == BucketSum(items, TravelAdminKeywords)
    IN  IF ~auditor_total.ok THEN auditor_total
        ELSE IF ~legal_prof_total.ok THEN legal_prof_total
        ELSE IF ~travel_admin_total.ok THEN travel_admin_total
        ELSE [ok |-> TRUE,
              auditor_total |-> auditor_total.val,
              legal_prof_total |-> legal_prof_total.val,
              travel_admin_total |-> travel_admin_total.val,
              total_other_expenses |->
                  auditor_total.val + legal_prof_total.val + travel_admin_total.val]

\* lines 124-128: the narrative built from the three bucket sums
FallbackAnalysis(auditor_total, legal_prof_total, travel_admin_total) ==
    <<"Analysis Summary:",
      <<"- Total audit-related fees: $", Fmt2f(auditor_total)>>,
      <<"- Legal and professional services: $", Fmt2f(legal_prof_total)>>,
      <<"- Travel and administrative costs: $", Fmt2f(travel_admin_total)>>,
      "- No significant anomalies detected in expense patterns">>

\* lines 116-128: the LLM's answer, or the fallback when the call raises
AnalysisText(t, llm) ==
    IF llm.ok THEN llm.content
    ELSE FallbackAnalysis(t.auditor_total, t.legal_prof_total, t.travel_admin_total)

\* variant: the handler of line 139 is missing, the exception leaves the node
calculate_other_expenses_node_NoCatch(s, llm) ==
    LET t == ComputeTotals(s.expense_items)
    IN  IF t.ok
        THEN [state |-> [s EXCEPT !.calculated_other_expenses =
                  [auditor_fees |-> t.auditor_total,
                   legal_and_professional_charges |-> t.legal_prof_total,
                   travel_and_administrative_expenses |-> t.travel_admin_total,
                   total_other_expenses |-> t.total_other_expenses,
                   ai_analysis |-> AnalysisText(t, llm)]],
              exc |-> None]
        ELSE [state |-> s, exc |-> t.exc]

\* variant: the inner try/except of lines 116-128 is missing, a failing LLM
\* call is caught by the outer handler and recorded as a calculation error
calculate_other_expenses_node_LLMFatal(s, llm) ==
    LET t == ComputeTotals(s.expense_items)
    IN  IF t.ok /\ llm.ok
        THEN [state |-> [s EXCEPT !.calculated_other_expenses =
                  [auditor_fees |-> t.auditor_total,
                   legal_and_professional_charges |-> t.legal_prof_total,
                   travel_and_administrative_expenses |-> t.travel_admin_total,
                   total_other_expenses |-> t.total_other_expenses,
                   ai_analysis |-> llm.content]],
              exc |-> None]
        ELSE [state |-> [s EXCEPT !.error =
                  ErrMsg("Calculation error", IF t.ok THEN "Exception" ELSE t.exc)],
              exc |-> None]

calculate_other_expenses_node(s, llm) ==
    LET t == ComputeTotals(s.expense_items)
    IN  IF t.ok
        THEN [state |-> [s EXCEPT !.calculated_other_expenses =
                  [auditor_fees |-> t.auditor_total,
                   legal_and_professional_charges |-> t.legal_prof_total,
                   travel_and_administrative_expenses |-> t.travel_admin_total,
                   total_other_expenses |-> t.total_other_expenses,
                   ai_analysis |-> AnalysisText(t, llm)]],
              exc |-> None]
        ELSE [state |-> [s EXCEPT !.error = ErrMsg("Calculation error", t.exc)],
              exc |-> None]

(***************************************************************************)
(* generate_output_node                                                    *)
(***************************************************************************)
\* lines 148-154
ZeroSummary ==
    [auditor_fees |-> 0,
     legal_and_professional_charges |-> 0,
     travel_and_administrative_expenses |-> 0,
     total_other_expenses |-> 0,
     ai_analysis |-> <<"No analysis available">>]

\* lines 158-185: the report, one entry per templated line that carries data
RenderReport(calc, expense_items) ==
    <<"OTHER EXPENSE CALCULATION REPORT",
      <<"1. AUDITOR FEES", "$", Fmt2f(calc.auditor_fees)>>,
      <<"2. LEGAL AND PROFESSIONAL CHARGES", "$", Fmt2f(calc.legal_and_professional_charges)>>,
      <<"3. TRAVEL AND ADMINISTRATIVE EXPENSES", "$",
        Fmt2f(calc.travel_and_administrative_expenses)>>,
      <<"TOTAL OTHER EXPENSES:", "$", Fmt2f(calc.total_other_expenses)>>,
      <<"AI ANALYSIS:", calc.ai_analysis>>,
      <<"Total Items Processed:", Len(expense_items)>>>>

\* variant: the renderer resets the error field once it has rendered
generate_output_node_ClearsError(s) ==
    LET calc == IF DOMAIN s.calculated_other_expenses = {}
                THEN ZeroSummary
                ELSE s.calculated_other_expenses
    IN  [state |-> [s EXCEPT !.calculated_other_expenses = calc,
                             !.output = RenderReport(calc, s.expense_items),
                             !.error = None],
         exc |-> None]

generate_output_node(s) ==
    LET calc == IF DOMAIN s.calculated_other_expenses = {}
                THEN ZeroSummary
                ELSE s.calculated_other_expenses
    IN  [state |-> [s EXCEPT !.calculated_other_expenses = calc,
                             !.output = RenderReport(calc, s.expense_items)],
         exc |-> None]

(***************************************************************************)
(* build_graph and main                                                    *)
(***************************************************************************)
\* the edges of the compiled graph
build_graph ==
    [START |-> "extract", extract |-> "calculate", calculate |-> "output", output |-> "END"]

\* lines 223-229
initial_state(raw_data) ==
    [raw_data |-> raw_data,
     expense_items |-> <<>>,
     calculated_other_expenses |-> EmptyDict,
     output |-> <<>>,
     error |-> None]

\* truth value of final_state["error"]
Truthy(e) == e # None /\ e # ""

\* variant: the file is written before the error test, in both branches
main_report_AlwaysSaves(final_state) ==
    IF Truthy(final_state.error)
    THEN [printed |-> << <<"[ERROR]", final_state.error>> >>,
          file |-> <<final_state.calculated_other_expenses>>]
    ELSE [printed |-> << <<"REPORT", final_state.output>>, <<"[SUCCESS]">> >>,
          file |-> <<final_state.calculated_other_expenses>>]

\* lines 235-243: what main prints and what it writes to
\* other_expenses_result.json (<<>>: the file is not written)
main_report(final_state) ==
    IF Truthy(final_state.error)
    THEN [printed |-> << <<"[ERROR]", final_state.error>> >>,
          file |-> <<>>]
    ELSE [printed |-> << <<"REPORT", final_state.output>>, <<"[SUCCESS]">> >>,
          file |-> <<final_state.calculated_other_expenses>>]

(***************************************************************************)
(* The state machine.                                                      *)
(***************************************************************************)
\* main has not started
Init ==
    /\ pc = "main"
    /\ state = initial_state(PyNull)
    /\ exc = None
    /\ stdout = <<>>
    /\ result_file = <<>>
    /\ llm_status = "not_called"

\* lines 220-232: fetch the raw data, build the initial state and the graph
\* and enter it at START
MainFetch ==
    /\ pc = "main"
    /\ \E response \in Responses :
          state' = initial_state(fetch_ac_data(response))
    /\ stdout' = stdout \o << <<"[START]">>, <<"[PROCESSING]">> >>
    /\ pc' = build_graph["START"]
    /\ UNCHANGED <<exc, result_file, llm_status>>

\* one node of the graph has run: follow its edge, or leave the graph with
\* the exception the node let escape
AfterNode(node, r) ==
    /\ state' = r.state
    /\ exc' = r.exc
    /\ pc' = IF r.exc # None THEN "crashed" ELSE build_graph[node]

Extract ==
    /\ pc = "extract"
    /\ AfterNode("extract", extract_other_expenses_node(state))
    /\ UNCHANGED <<stdout, result_file, llm_status>>

Calculate ==
    /\ pc = "calculate"
    /\ \E llm \in LLMOutcomes :
          /\ AfterNode("calculate", calculate_other_expenses_node(state, llm))
          /\ llm_status' = IF ~ComputeTotals(state.expense_items).ok THEN "not_called"
                           ELSE IF llm.ok THEN "ok" ELSE "failed"
    /\ UNCHANGED <<stdout, result_file>>

Output ==
    /\ pc = "output"
    /\ AfterNode("output", generate_output_node(state))
    /\ UNCHANGED <<stdout, result_file, llm_status>>

\* lines 233-243: graph.invoke has returned final_state
MainReport ==
    /\ pc = "END"
    /\ LET r == main_report(state)
       IN  /\ stdout' = stdout \o r.printed
           /\ result_file' = r.file
    /\ pc' = "exit"
    /\ UNCHANGED <<state, exc, llm_status>>

Next == MainFetch \/ Extract \/ Calculate \/ Output \/ MainReport

Spec == Init /\ [][Next]_vars

(***************************************************************************)
(* Vocabulary of the properties.                                           *)
(***************************************************************************)
ExtractionErrors ==
    {ErrMsg("Extraction error", e) : e \in {"AttributeError", "TypeError"}}

CalculationErrors ==
    {ErrMsg("Calculation error", e) : e \in {"KeyError", "ValueError", "TypeError"}}

\* the graph has returned its final state
GraphReturned == pc \in {"END", "exit"}

\* the extract node has run
Extracted == pc \in {"calculate", "output", "END", "exit"}

\* the calculate node has run
Calculated == pc \in {"output", "END", "exit"}

HasAggregate == DOMAIN state.calculated_other_expenses # {}

\* the raw input is a dict whose "expenses" (if any) is a list of dicts
WellFormedInput ==
    /\ state.raw_data.type = "dict"
    /\ "expenses" \in DOMAIN state.raw_data.val =>
          /\ state.raw_data.val.expenses.type = "list"
          /\ \A i \in DOMAIN state.raw_data.val.expenses.val :
                state.raw_data.val.expenses.val[i].type = "dict"

InputRecords ==
    IF "expenses" \in DOMAIN state.raw_data.val
    THEN state.raw_data.val.expenses.val
    ELSE <<>>

\* the category label of a record, a missing one counting as ""
CategoryText(exp) ==
    IF "category" \in DOMAIN exp.val THEN exp.val.category.val ELSE <<>>

HasKeywordOf(exp, kws) ==
    \E kw \in kws : StrContains(StrLower(CategoryText(exp)), kw)

AllKeywords == {KW_auditor, KW_legal, KW_professional, KW_travel, KW_administrative}

\* the j-th smallest element of a set of indices
NthOf(S, j) == CHOOSE i \in S : Cardinality({k \in S : k < i}) = j - 1

\* the amount of a record cannot be coerced to a number
Uncoercible(exp) == "amount" \in DOMAIN exp.val /\ ~PyFloat(exp.val.amount).ok

\* number of buckets whose keyword set a record matches
BucketsOf(exp) ==
    (IF HasKeywordOf(exp, {KW_auditor}) THEN 1 ELSE 0)
    + (IF HasKeywordOf(exp, {KW_legal, KW_professional}) THEN 1 ELSE 0)
    + (IF HasKeywordOf(exp, {KW_travel, KW_administrative}) THEN 1 ELSE 0)

AmountOf(exp) == PyFloat(exp.val.amount).val

RECURSIVE SumSeq(_)
SumSeq(ns) == IF Len(ns) = 0 THEN 0 ELSE Head(ns) + SumSeq(Tail(ns))

\* sum over the items of weight(item) * amount(item)
WeightedSum(items, weight(_)) ==
    SumSeq([i \in DOMAIN items |-> weight(items[i]) * AmountOf(items[i])])

InBucket(exp, kws) == IF HasKeywordOf(exp, kws) THEN 1 ELSE 0

(***************************************************************************)
(* C1                                                                      *)
(***************************************************************************)
\* C1: a stage other than the renderer that starts with an error already
\* recorded does none of its work and passes the state through unchanged;
\* in particular the calculate node after an extraction error leaves the
\* aggregate result empty.
C1_ShortCircuit ==
    [][(pc = "calculate" /\ Truthy(state.error)) => state' = state]_vars

(***************************************************************************)
(* C2                                                                      *)
(***************************************************************************)
\* position of a control point on the one path main -> ... -> exit
PcRank(p) ==
    CASE p = "main" -> 0
      [] p = "extract" -> 1
      [] p = "calculate" -> 2
      [] p = "output" -> 3
      [] p = "END" -> 4
      [] p = "exit" -> 5
      [] OTHER -> 0 - 1

\* C2: for every raw input no node lets an exception escape: every step
\* moves the run one control point further towards the end of the graph,
\* never into a crash, and when the graph returns the output is populated
\* and/or the error message is populated.
C2_NoEscapeTerminal ==
    [][/\ exc' = None
       /\ PcRank(pc') = PcRank(pc) + 1
       /\ pc' = "END" => (Len(state'.output) > 0 \/ Truthy(state'.error))]_vars

C2_Witness ==
    /\ pc = "END"
    /\ state.error \in CalculationErrors
    /\ Len(state.output) > 0
    /\ exc = None

(***************************************************************************)
(* C3                                                                      *)
(***************************************************************************)
\* C3: for every input list of records the extract node raises no error
\* (a missing category included) and its output is the input restricted,
\* in input order and without duplication, to exactly the records whose
\* lower-cased category contains one of the five keywords.
C3_ClassifierSubsequence ==
    (Extracted /\ WellFormedInput) =>
        LET xs   == InputRecords
            out  == state.expense_items
            kept == {i \in DOMAIN xs : HasKeywordOf(xs[i], AllKeywords)}
        IN  /\ state.error \notin ExtractionErrors
            /\ Len(out) = Cardinality(kept)
            /\ \A j \in DOMAIN out : out[j] = xs[NthOf(kept, j)]

\* a two-record input whose first record has no category and is dropped,
\* and whose second record is kept
C3_Witness ==
    /\ pc = "calculate"
    /\ WellFormedInput
    /\ Len(InputRecords) = 2
    /\ "category" \notin DOMAIN InputRecords[1].val
    /\ state.expense_items = <<InputRecords[2]>>
    /\ state.error = None

(***************************************************************************)
(* C4                                                                      *)
(***************************************************************************)
\* C4: whenever an aggregate result is present (after the calculate node
\* and still after rendering) its grand total equals the sum of its three
\* bucket totals.
C4_TotalIsSumOfBuckets ==
    HasAggregate =>
        LET c == state.calculated_other_expenses
        IN  c.total_other_expenses =
                c.auditor_fees + c.legal_and_professional_charges
                + c.travel_and_administrative_expenses

\* the five-record fallback dataset: 5000 + 5300 + 3100 = 13400
C4_Witness ==
    /\ pc = "exit"
    /\ HasAggregate
    /\ state.calculated_other_expenses.auditor_fees = 5000
    /\ state.calculated_other_expenses.legal_and_professional_charges = 5300
    /\ state.calculated_other_expenses.travel_and_administrative_expenses = 3100
    /\ state.calculated_other_expenses.total_other_expenses = 13400

(***************************************************************************)
(* C5                                                                      *)
(***************************************************************************)
\* C5: if a record of the filtered list has an amount that cannot be
\* coerced to a number, the calculate node records a calculation error and
\* stores no aggregate, the renderer then emits the all-zero summary, and
\* the error is still set in the terminal state.
C5_BadAmountFailsAggregation ==
    (Calculated /\ \E i \in DOMAIN state.expense_items :
                        Uncoercible(state.expense_items[i])) =>
        /\ state.error \in CalculationErrors
        /\ pc = "output" => ~HasAggregate
        /\ GraphReturned =>
              /\ state.calculated_other_expenses = ZeroSummary
              /\ state.output = RenderReport(ZeroSummary, state.expense_items)

\* a good record followed by a record with amount "abc", at the end
C5_Witness ==
    /\ pc = "END"
    /\ Len(state.expense_items) = 2
    /\ ~Uncoercible(state.expense_items[1])
    /\ "amount" \in DOMAIN state.expense_items[1].val
    /\ Uncoercible(state.expense_items[2])
    /\ state.error = ErrMsg("Calculation error", "ValueError")
    /\ state.calculated_other_expenses = ZeroSummary

(***************************************************************************)
(* C6                                                                      *)
(***************************************************************************)
\* C6: when the enrichment call fails, the calculate step leaves the error
\* field as it was, stores the three bucket sums and the grand total, and
\* the narrative is the templated fallback of the three stored bucket sums.
C6_EnrichmentFailureAbsorbed ==
    [][(pc = "calculate" /\ llm_status' = "failed") =>
          /\ state'.error = state.error
          /\ pc' = "output"
          /\ LET c == state'.calculated_other_expenses
             IN  /\ DOMAIN c = {"auditor_fees", "legal_and_professional_charges",
                                "travel_and_administrative_expenses",
                                "total_other_expenses", "ai_analysis"}
                 /\ c.auditor_fees =
                       WeightedSum(state.expense_items,
                                   LAMBDA e : InBucket(e, {KW_auditor}))
                 /\ c.legal_and_professional_charges =
                       WeightedSum(state.expense_items,
                                   LAMBDA e : InBucket(e, {KW_legal, KW_professional}))
                 /\ c.travel_and_administrative_expenses =
                       WeightedSum(state.expense_items,
                                   LAMBDA e : InBucket(e, {KW_travel, KW_administrative}))
                 /\ c.total_other_expenses =
                       c.auditor_fees + c.legal_and_professional_charges
                       + c.travel_and_administrative_expenses
                 /\ c.ai_analysis =
                       FallbackAnalysis(c.auditor_fees,
                                        c.legal_and_professional_charges,
                                        c.travel_and_administrative_expenses)]_vars

C6_Witness ==
    /\ pc = "output"
    /\ llm_status = "failed"
    /\ state.error = None
    /\ HasAggregate
    /\ state.calculated_other_expenses.auditor_fees = 5000
    /\ state.calculated_other_expenses.ai_analysis = FallbackAnalysis(5000, 0, 0)

(***************************************************************************)
(* C7                                                                      *)
(***************************************************************************)
\* C7: the renderer always produces an output, also with an error already
\* recorded; with the aggregate absent it substitutes four zero amounts and
\* the placeholder narrative; it leaves the error field as it was, and a
\* run whose aggregate was absent ends with the error set.
C7_RendererAlwaysRenders ==
    [][pc = "output" =>
          /\ Len(state'.output) > 0
          /\ state'.error = state.error
          /\ pc' = "END"
          /\ ~HasAggregate =>
                /\ state'.calculated_other_expenses.auditor_fees = 0
                /\ state'.calculated_other_expenses.legal_and_professional_charges = 0
                /\ state'.calculated_other_expenses.travel_and_administrative_expenses = 0
                /\ state'.calculated_other_expenses.total_other_expenses = 0
                /\ state'.calculated_other_expenses.ai_analysis = <<"No analysis available">>
                /\ Truthy(state'.error)]_vars

C7_Witness ==
    /\ pc = "END"
    /\ state.calculated_other_expenses.ai_analysis = <<"No analysis available">>
    /\ state.calculated_other_expenses.total_other_expenses = 0
    /\ Truthy(state.error)
    /\ Len(state.output) > 0

(***************************************************************************)
(* C8                                                                      *)
(***************************************************************************)
\* C8 as stated: in every aggregate result the three bucket totals and the
\* grand total are non-negative, also for lists with negative amounts.
C8_TotalsNonNegative ==
    HasAggregate =>
        LET c == state.calculated_other_expenses
        IN  /\ c.auditor_fees >= 0
            /\ c.legal_and_professional_charges >= 0
            /\ c.travel_and_administrative_expenses >= 0
            /\ c.total_other_expenses >= 0

\* C8 amended: amounts are summed with their sign and without clamping, so
\* the three bucket totals and the grand total are non-negative whenever no
\* filtered record has a negative amount.
C8_TotalsNonNegativeForNonNegativeAmounts ==
    (HasAggregate /\ \A i \in DOMAIN state.expense_items :
                        /\ "amount" \in DOMAIN state.expense_items[i].val
                        /\ PyFloat(state.expense_items[i].val.amount).ok
                        /\ PyFloat(state.expense_items[i].val.amount).val >= 0) =>
        LET c == state.calculated_other_expenses
        IN  /\ c.auditor_fees >= 0
            /\ c.legal_and_professional_charges >= 0
            /\ c.travel_and_administrative_expenses >= 0
            /\ c.total_other_expenses >= 0

\* two filtered records with positive amounts, one of them a numeric string
C8_Witness ==
    /\ pc = "output"
    /\ HasAggregate
    /\ Len(state.expense_items) = 2
    /\ state.expense_items[1].val.amount = PyInt(5000)
    /\ state.expense_items[2].val.amount = PyStr(<<"1","8","0","0">>)
    /\ state.calculated_other_expenses.total_other_expenses > 0

(***************************************************************************)
(* C9                                                                      *)
(***************************************************************************)
\* C9: each bucket sum is the sum of the amounts of exactly the filtered
\* records that match that bucket's keywords, so a record matching k
\* buckets is counted k times in the grand total, and every filtered
\* record matches at least one bucket.
C9_IndependentBucketMembership ==
    (Calculated /\ state.error = None) =>
        LET c     == state.calculated_other_expenses
            items == state.expense_items
        IN  /\ \A i \in DOMAIN items : BucketsOf(items[i]) \in 1..3
            /\ c.auditor_fees =
                  WeightedSum(items, LAMBDA e : InBucket(e, {KW_auditor}))
            /\ c.legal_and_professional_charges =
                  WeightedSum(items, LAMBDA e : InBucket(e, {KW_legal, KW_professional}))
            /\ c.travel_and_administrative_expenses =
                  WeightedSum(items, LAMBDA e : InBucket(e, {KW_travel, KW_administrative}))
            /\ c.total_other_expenses = WeightedSum(items, BucketsOf)

\* records matching one, two and three buckets: 5000 is counted three
\* times, 1800 twice
C9_Witness ==
    /\ pc = "output"
    /\ state.error = None
    /\ Len(state.expense_items) = 2
    /\ BucketsOf(state.expense_items[1]) = 3
    /\ BucketsOf(state.expense_items[2]) = 2
    /\ state.expense_items[1].val.amount = PyInt(5000)
    /\ state.expense_items[2].val.amount = PyStr(<<"1","8","0","0">>)
    /\ state.calculated_other_expenses.total_other_expenses = 3 * 5000 + 2 * 1800

(***************************************************************************)
(* C10                                                                     *)
(***************************************************************************)
Printed(tag) == \E i \in DOMAIN stdout : stdout[i][1] = tag

\* C10: when main has finished, either the run ended with an error and
\* main printed the error marker with the message, no report and no
\* success marker, and wrote no file; or there is no error and main printed
\* the report and then the success marker and wrote the aggregate result
\* to the file.
C10_MainExitBehaviour ==
    pc = "exit" =>
        IF Truthy(state.error)
        THEN /\ stdout[Len(stdout)] = <<"[ERROR]", state.error>>
             /\ ~Printed("REPORT")
             /\ ~Printed("[SUCCESS]")
             /\ result_file = <<>>
        ELSE /\ stdout[Len(stdout) - 1] = <<"REPORT", state.output>>
             /\ stdout[Len(stdout)] = <<"[SUCCESS]">>
             /\ ~Printed("[ERROR]")
             /\ result_file = <<state.calculated_other_expenses>>

C10_Witness ==
    /\ pc = "exit"
    /\ state.error \in ExtractionErrors
    /\ Printed("[ERROR]")
    /\ result_file = <<>>
    /\ Len(state.output) > 0

====
